---- MODULE Spec2Model ----
(***************************************************************************)
(* Model of src/flower/client_fabric.py: the FlowerClient round protocol   *)
(* (get_parameters, set_parameters, fit, evaluate) around a torch model,   *)
(* a Fabric execution backend and the train_loop / test_loop engine.       *)
(*                                                                         *)
(* A tensor / ndarray is a record [shape, data]: shape is the tuple of     *)
(* dimensions, data the flat row-major element sequence.  The model's      *)
(* state_dict is an ordered sequence of <<key, tensor>> pairs; a           *)
(* ParameterSet is a sequence of ndarrays without keys.                    *)
(***************************************************************************)
EXTENDS Integers, Sequences, FiniteSets, TLC

\* ---------------------------------------------------------------- bounds
MaxEpochs == 1     \* local_epochs values range over 0..MaxEpochs
MaxOptSteps == 1   \* cap on the epochs the optimizer has stepped through
MaxInbox == 1      \* messages the transport holds for the session loop

\* ---------------------------------------------------------- value domains
Values == {0, 1}                       \* tensor element values
Metrics == {0, 1}                      \* loss / accuracy values
Shapes == {<< >>, <<1>>, <<1, 1>>}     \* tensor shapes

RECURSIVE Numel(_)
Numel(shape) == IF shape = << >> THEN 1 ELSE Head(shape) * Numel(Tail(shape))

Arrays == UNION {[shape : {s}, data : [1..Numel(s) -> Values]] : s \in Shapes}

\* weight layouts of the model architectures (model_registry products)
Layouts == { << <<1>>, << >> >>, << <<1>>, <<1, 1>> >> }

KeyOf(i) == <<"layer", i>>

Zeros(shape) == [shape |-> shape, data |-> [j \in 1..Numel(shape) |-> 0]]

\* state_dict of a freshly constructed model of the given layout
NewModel(layout) == [i \in 1..Len(layout) |-> <<KeyOf(i), Zeros(layout[i])>>]

Cids == {1}
SampleCounts == {[trainset |-> 3, valset |-> 2]}
Accelerators == {"cpu", "cuda"}

ConfigKeys == {"server_round", "local_epochs"}
KnownConfigs == {c \in UNION {[K -> 0..MaxEpochs] : K \in SUBSET ConfigKeys} :
                   "server_round" \in DOMAIN c => c["server_round"] = 1}

\* a config with a key the client does not know, and a config without them
WithOther(c) == [k \in DOMAIN c \cup {"other"} |-> IF k = "other" THEN 0 ELSE c[k]]
Known(c) == [k \in DOMAIN c \cap ConfigKeys |-> c[k]]

\* the configs the coordinator sends: unknown keys come along with the known ones
Configs == KnownConfigs \cup
           {WithOther(c) : c \in {k \in KnownConfigs :
                                     DOMAIN k = ConfigKeys /\ k["local_epochs"] = 1}}

Min(a, b) == IF a < b THEN a ELSE b

\* ------------------------------------------------------------ the codec
\* the values of state_dict() taken last slot first
get_parameters_reversed(model) ==
    [i \in 1..Len(model) |-> [shape |-> model[Len(model) + 1 - i][2].shape,
                              data |-> model[Len(model) + 1 - i][2].data]]

\* val.cpu().numpy() for every value of state_dict(), in state_dict order
get_parameters(model) ==
    [i \in 1..Len(model) |-> [shape |-> model[i][2].shape, data |-> model[i][2].data]]

\* the zip with the arrays taken in the opposite order
params_dict_reversed(model, parameters) ==
    [i \in 1..Min(Len(model), Len(parameters)) |->
        <<model[i][1], parameters[Len(parameters) + 1 - i]>>]

\* zip(self.model.state_dict().keys(), parameters): stops at the shorter one
params_dict(model, parameters) ==
    [i \in 1..Min(Len(model), Len(parameters)) |-> <<model[i][1], parameters[i]>>]

\* OrderedDict({k: torch.tensor(v) ...}): key -> tensor copy of the ndarray
HasKey(pd, k) == \E i \in 1..Len(pd) : pd[i][1] = k
Lookup(pd, k) == LET i == CHOOSE i \in 1..Len(pd) : pd[i][1] = k
                 IN  [shape |-> pd[i][2].shape, data |-> pd[i][2].data]

\* torch's _load_from_state_dict: a 1-dim input for a 0-dim parameter is
\* replaced by its first element before the shapes are compared
InputParam(param, input) ==
    IF Len(param.shape) = 0 /\ Len(input.shape) = 1
    THEN [shape |-> << >>, data |-> <<input.data[1]>>]
    ELSE input

SizeMismatch(param, input) == InputParam(param, input).shape # param.shape

\* one slot of load_state_dict: param.copy_(input_param) unless the key is
\* missing or the size mismatches (the slot is then skipped, error recorded)
LoadSlot(entry, pd) ==
    IF HasKey(pd, entry[1]) /\ ~SizeMismatch(entry[2], Lookup(pd, entry[1]))
    THEN <<entry[1], InputParam(entry[2], Lookup(pd, entry[1]))>>
    ELSE entry

\* error_msgs of load_state_dict(strict=True) is non-empty
LoadErrors(model, pd) ==
    \E i \in 1..Len(model) :
        \/ ~HasKey(pd, model[i][1])
        \/ SizeMismatch(model[i][2], Lookup(pd, model[i][1]))

\* self.model.load_state_dict(state_dict, strict=True): every slot is loaded
\* first, the RuntimeError is raised afterwards
set_parameters(model, parameters) ==
    LET pd == params_dict(model, parameters)
    IN  [model  |-> [i \in 1..Len(model) |-> LoadSlot(model[i], pd)],
         raised |-> LoadErrors(model, pd)]

\* ------------------------------------------------------------ the engine
\* train_loop(fabric, model, dataloader, optimizer, epochs): updates the
\* weight values in place (shapes are kept), steps the optimizer once per
\* epoch and returns (loss, accuracy), or raises.  eng is what the engine
\* does in this call: [raises, data, loss, accuracy]
train_loop(model, optimizer, epochs, eng) ==
    [model     |-> [i \in 1..Len(model) |-> <<model[i][1], eng.data[i]>>],
     optimizer |-> optimizer + epochs,
     loss      |-> eng.loss,
     accuracy  |-> eng.accuracy,
     raised    |-> eng.raises]

RECURSIVE SumSeq(_)
SumSeq(s) == IF s = << >> THEN 0 ELSE Head(s) + SumSeq(Tail(s))

RECURSIVE SumModel(_)
SumModel(model) ==
    IF model = << >> THEN 0 ELSE SumSeq(Head(model)[2].data) + SumModel(Tail(model))

\* test_loop(fabric, model, dataloader): a read-only pass; the pair it
\* returns is determined by the weights and the (fixed) validation feed
test_loop(model, eng) ==
    [loss     |-> SumModel(model) % Cardinality(Metrics),
     accuracy |-> (SumModel(model) + model[1][2].data[1]) % Cardinality(Metrics),
     raised   |-> eng.raises]

\* ------------------------------------------------------------ the client
NoMetrics == [accuracy |-> -1, loss |-> -1, cid |-> -1]
NoRet == [kind |-> "none", parameters |-> << >>, loss |-> -1, num |-> -1,
          metrics |-> NoMetrics]

\* __init__: the attributes refer to the objects passed in; the optimizer is
\* the one configure_optimizers() returned, called here and nowhere else
NewRefs == [model |-> <<"net">>,
            optimizer |-> <<"configure_optimizers", "net">>,
            train_dataloader |-> <<"trainloader">>,
            validation_dataloader |-> <<"testloader">>,
            configured |-> 1]

\* the handle Fabric returns for an object
Wrap(object) == <<"fabric">> \o object

\* a setup that keeps the handle of the module on self
AfterSetup_stored(self) == [self.refs EXCEPT !.model = Wrap(@)]

\* _model, _optimizer = self.fabric.setup(self.model, self.optimizer) /
\* _model = self.fabric.setup_module(self.model); _..._dataloader =
\* self.fabric.setup_dataloaders(...): the handles are bound to local names
\* only, no attribute of self is assigned
AfterSetup(self) == self.refs

\* a handler that runs the failed step once more before it gives up
Raise_retried(self, decoded, model, optimizer, device, error, trace, epochs) ==
    [decoded |-> decoded, model |-> model, optimizer |-> optimizer,
     device |-> device, outcome |-> "error", error |-> error, ret |-> NoRet,
     trace |-> Append(trace, trace[Len(trace)]), epochs |-> epochs,
     refs |-> self.refs]

\* outcome of a call that raised: what it left behind, and nothing returned
Raise(self, decoded, model, optimizer, device, error, trace, epochs) ==
    [decoded |-> decoded, model |-> model, optimizer |-> optimizer,
     device |-> device, outcome |-> "error", error |-> error, ret |-> NoRet,
     trace |-> trace, epochs |-> epochs,
     refs |-> IF \E i \in 1..Len(trace) : trace[i] = "setup"
              THEN AfterSetup(self) ELSE self.refs]

\* fit's result with loss and accuracy exchanged in the metrics
FitReturn_swapped(self, m, loss, accuracy) ==
    [kind |-> "fit", parameters |-> get_parameters(m), loss |-> -1,
     num |-> self.num_examples["trainset"],
     metrics |-> [accuracy |-> loss, loss |-> accuracy, cid |-> self.cid]]

\* fit's result with the validation feed's count
FitReturn_valset(self, m, loss, accuracy) ==
    [kind |-> "fit", parameters |-> get_parameters(m), loss |-> -1,
     num |-> self.num_examples["valset"],
     metrics |-> [accuracy |-> accuracy, loss |-> loss, cid |-> self.cid]]

\* metrics = {...}; return self.get_parameters(config={}),
\* self.num_examples["trainset"], metrics
FitReturn(self, m, loss, accuracy) ==
    [kind |-> "fit", parameters |-> get_parameters(m), loss |-> -1,
     num |-> self.num_examples["trainset"],
     metrics |-> [accuracy |-> accuracy, loss |-> loss, cid |-> self.cid]]

\* evaluate's result with the accuracy as first element
EvaluateReturn_accuracy(self, loss, accuracy) ==
    [kind |-> "evaluate", parameters |-> << >>, loss |-> accuracy,
     num |-> self.num_examples["valset"],
     metrics |-> [accuracy |-> accuracy, loss |-> loss, cid |-> self.cid]]

\* metrics = {...}; return loss, self.num_examples["valset"], metrics
EvaluateReturn(self, loss, accuracy) ==
    [kind |-> "evaluate", parameters |-> << >>, loss |-> loss,
     num |-> self.num_examples["valset"],
     metrics |-> [accuracy |-> accuracy, loss |-> loss, cid |-> self.cid]]

\* the module wrapped before the incoming parameters were loaded
setup_module_stale(self, sp) == self.model

\* _model = self.fabric.setup_module(self.model): wraps self.model as it is
\* after set_parameters
setup_module(self, sp) == sp.model

\* a lookup that also fails on a config holding keys besides the known ones
Missing_strict(config, key) ==
    key \notin DOMAIN config \/ ~(DOMAIN config \subseteq ConfigKeys)

\* a lookup that reads the round number with a default
Missing_lenient(config, key) == key # "server_round" /\ key \notin DOMAIN config

\* config[key] raises KeyError
Missing(config, key) == key \notin DOMAIN config

\* a get_parameters that reads the round number from its config
get_parameters_call_round(self, config) ==
    IF Missing(config, "server_round")
    THEN Raise(self, self.model, self.model, self.optimizer, self.device,
               "KeyError", << >>, -1)
    ELSE [decoded |-> self.model, model |-> self.model,
          optimizer |-> self.optimizer, device |-> self.device,
          outcome |-> "ok", error |-> "none",
          ret |-> [NoRet EXCEPT !.kind = "ParameterSet",
                                !.parameters = get_parameters(self.model)],
          trace |-> <<"encode">>, epochs |-> -1, refs |-> self.refs]

\* FlowerClient.get_parameters as a call: config is only logged
get_parameters_call(self, config) ==
    [decoded |-> self.model, model |-> self.model,
     optimizer |-> self.optimizer, device |-> self.device,
     outcome |-> "ok", error |-> "none",
     ret |-> [NoRet EXCEPT !.kind = "ParameterSet",
                           !.parameters = get_parameters(self.model)],
     trace |-> <<"encode">>, epochs |-> -1, refs |-> self.refs]

\* FlowerClient.fit
fit(self, parameters, config, eng) ==
    LET sp == set_parameters(self.model, parameters)
        tl == train_loop(sp.model, self.optimizer,
                         IF "local_epochs" \in DOMAIN config
                         THEN config["local_epochs"] ELSE 0, eng)
    IN  IF sp.raised
        THEN Raise(self, sp.model, sp.model, self.optimizer, self.device,
                   "RuntimeError", <<"decode">>, -1)
        ELSE IF Missing(config, "server_round")
        THEN Raise(self, sp.model, sp.model, self.optimizer, self.device,
                   "KeyError", <<"decode">>, -1)
        ELSE IF Missing(config, "local_epochs")
        THEN Raise(self, sp.model, sp.model, self.optimizer, self.conf_fabric,
                   "KeyError", <<"decode", "launch", "setup">>, -1)
        ELSE IF tl.raised
        THEN Raise(self, sp.model, tl.model, tl.optimizer, self.conf_fabric,
                   "EngineError", <<"decode", "launch", "setup", "train">>,
                   config["local_epochs"])
        ELSE [decoded |-> sp.model, model |-> tl.model,
              optimizer |-> tl.optimizer, device |-> self.conf_fabric,
              outcome |-> "ok", error |-> "none",
              ret |-> FitReturn(self, tl.model, tl.loss, tl.accuracy),
              trace |-> <<"decode", "launch", "setup", "train", "encode">>,
              epochs |-> config["local_epochs"], refs |-> AfterSetup(self)]

\* FlowerClient.evaluate
evaluate(self, parameters, config, eng) ==
    LET sp == set_parameters(self.model, parameters)
        tl == test_loop(setup_module(self, sp), eng)
    IN  IF sp.raised
        THEN Raise(self, sp.model, sp.model, self.optimizer, self.device,
                   "RuntimeError", <<"decode">>, -1)
        ELSE IF Missing(config, "server_round")
        THEN Raise(self, sp.model, sp.model, self.optimizer, self.device,
                   "KeyError", <<"decode">>, -1)
        ELSE IF tl.raised
        THEN Raise(self, sp.model, sp.model, self.optimizer, self.conf_fabric,
                   "EngineError", <<"decode", "launch", "setup", "test">>, -1)
        ELSE [decoded |-> sp.model, model |-> sp.model,
              optimizer |-> self.optimizer, device |-> self.conf_fabric,
              outcome |-> "ok", error |-> "none",
              ret |-> EvaluateReturn(self, tl.loss, tl.accuracy),
              trace |-> <<"decode", "launch", "setup", "test">>,
              epochs |-> -1, refs |-> AfterSetup(self)]

\* ------------------------------------------------------------- the state
VARIABLES
    cid,           \* self.cid
    num_examples,  \* self.num_examples
    conf_fabric,   \* self.conf_fabric: the accelerator Fabric places the model on
    model,         \* self.model.state_dict(): ordered <<key, tensor>> pairs
    optimizer,     \* self.optimizer: epochs it has stepped through
    device,        \* where the model's tensors currently live
    handed,        \* the ParameterSet most recently returned to the caller
    last,          \* the call whose outcome is being reported ("idle": none)
    ctor,          \* the arguments __init__ was called with
    session,       \* the protocol session: messages waiting, rounds in progress
    boot,          \* launch_config: its arguments and how far it has come
    refs           \* the objects self's attributes refer to

vars == <<cid, num_examples, conf_fabric, model, optimizer, device, handed, last,
          ctor, session, boot, refs>>

Self == [cid |-> cid, num_examples |-> num_examples, conf_fabric |-> conf_fabric,
         model |-> model, optimizer |-> optimizer, device |-> device, refs |-> refs]

Layout(m) == [i \in 1..Len(m) |-> m[i][2].shape]
ShapesOf(p) == [i \in 1..Len(p) |-> p[i].shape]
Steps(trace) == {trace[i] : i \in 1..Len(trace)}

\* ParameterSets a caller may send: matching ones, and ones with one extra
\* array, one array missing, or one array of another shape
Matching(m) == {p \in [1..Len(m) -> Arrays] : ShapesOf(p) = Layout(m)}
OneExtra(m) == {Append(p, Zeros(s)) : p \in Matching(m), s \in Shapes}
OneMissing(m) ==
    {[j \in 1..(Len(m) - 1) |-> IF j < i THEN p[j] ELSE p[j + 1]] :
        p \in Matching(m), i \in 1..Len(m)}
OneWrongShape(m) ==
    UNION {{[pi[1] EXCEPT ![pi[2]] = a] :
                a \in {b \in Arrays : b.shape # pi[1][pi[2]].shape}} :
        pi \in Matching(m) \X (1..Len(m))}
ParameterSets(m) == Matching(m) \cup OneExtra(m) \cup OneMissing(m) \cup OneWrongShape(m)

\* what the engine may do in one call
NoEngine(m) == [raises |-> FALSE, data |-> get_parameters(m), loss |-> 0, accuracy |-> 0]
EngineChoices(m) ==
    [raises : {FALSE}, data : Matching(m), loss : Metrics, accuracy : Metrics]
    \cup [raises : {TRUE}, data : Matching(m), loss : {0}, accuracy : {0}]

\* no session is looked at / launch_config is not looked at
NoSession == [inbox |-> << >>, active |-> << >>]
NoBoot == [pc |-> "none"]

NoHanded == [has |-> FALSE, live |-> FALSE, now |-> << >>]

\* numpy arrays made by val.cpu().numpy() share the tensor's memory when the
\* tensor is already on the cpu, and are copies otherwise
Snapshot(m, dev) == [has |-> TRUE, live |-> dev = "cpu", now |-> get_parameters(m)]

\* an in-place write to the model's tensors shows through a sharing array
Written(h, m) == IF h.live THEN [h EXCEPT !.now = get_parameters(m)] ELSE h

\* fabric.setup / setup_module moves the module to the accelerator; tensors
\* that leave the cpu get new storage, so earlier arrays stop sharing
Moved(h, from, to) == IF from # to THEN [h EXCEPT !.live = FALSE] ELSE h

\* what the caller's earlier ParameterSet holds after a fit / evaluate call
HandedAfter(h, r, devBefore) ==
    Written(Moved(Written(h, r.decoded), devBefore, r.device), r.model)

Idle == [kind |-> "idle", parameters |-> << >>, config |-> << >>,
         outcome |-> "none", error |-> "none", ret |-> NoRet,
         trace |-> << >>, epochs |-> -1,
         before |-> << >>, optBefore |-> -1, decoded |-> << >>,
         engine |-> [loss |-> -1, accuracy |-> -1],
         held |-> [has |-> FALSE, before |-> << >>, after |-> << >>],
         twice |-> FALSE, prevRet |-> NoRet, after |-> "none"]

\* the record of a call: arguments, the state it started from, its outcome
\* (after: for get_parameters, how the call before it ended)
Call(kind, parameters, config, r, eng, h, again) ==
    [kind |-> kind, parameters |-> parameters, config |-> config,
     outcome |-> r.outcome, error |-> r.error, ret |-> r.ret,
     trace |-> r.trace, epochs |-> r.epochs,
     before |-> model, optBefore |-> optimizer,
     decoded |-> IF "decode" \in Steps(r.trace) THEN get_parameters(r.decoded) ELSE << >>,
     engine |-> IF "train" \in Steps(r.trace) /\ ~eng.raises
                THEN [loss |-> eng.loss, accuracy |-> eng.accuracy]
                ELSE [loss |-> -1, accuracy |-> -1],
     held |-> [has |-> handed.has, before |-> handed.now, after |-> h.now],
     twice |-> again,
     prevRet |-> IF again THEN last.ret ELSE NoRet,
     after |-> IF kind = "get_parameters" THEN last.outcome ELSE "none"]

Init ==
    /\ cid \in Cids
    /\ num_examples \in SampleCounts
    /\ conf_fabric \in Accelerators
    /\ model \in {NewModel(l) : l \in Layouts}
    /\ optimizer = 0
    /\ device = "cpu"
    /\ handed = NoHanded
    /\ last = Idle
    /\ ctor = [cid |-> cid, num_examples |-> num_examples, layout |-> Layout(model),
               refs |-> NewRefs]
    /\ session = NoSession
    /\ boot = NoBoot
    /\ refs = NewRefs

\* client.get_parameters(config); it may directly follow an evaluate round
\* that failed on its config
GetParameters ==
    /\ last.kind = "idle" \/ (last.kind = "evaluate" /\ last.error = "KeyError")
    /\ \E config \in IF last.kind = "idle" THEN Configs ELSE {<< >>} :
        LET r == get_parameters_call(Self, config)
        IN  /\ model' = r.model
            /\ optimizer' = r.optimizer
            /\ device' = r.device
            /\ handed' = IF r.outcome = "ok" THEN Snapshot(r.model, r.device) ELSE handed
            /\ last' = Call("get_parameters", << >>, config, r, NoEngine(model),
                            handed, FALSE)
    /\ UNCHANGED <<cid, num_examples, conf_fabric, ctor, session, boot, refs>>

\* client.set_parameters(parameters)
SetParameters ==
    /\ last.kind = "idle"
    /\ \E parameters \in ParameterSets(model) :
        LET sp == set_parameters(model, parameters)
            r == [decoded |-> sp.model, model |-> sp.model, optimizer |-> optimizer,
                  device |-> device,
                  outcome |-> IF sp.raised THEN "error" ELSE "ok",
                  error |-> IF sp.raised THEN "RuntimeError" ELSE "none",
                  ret |-> NoRet, trace |-> <<"decode">>, epochs |-> -1, refs |-> refs]
        IN  /\ model' = sp.model
            /\ handed' = Written(handed, sp.model)
            /\ last' = Call("set_parameters", parameters, << >>, r, NoEngine(model),
                            handed', FALSE)
    /\ UNCHANGED <<cid, num_examples, conf_fabric, optimizer, device, ctor, session, boot, refs>>

\* client.fit(parameters, config)
Fit ==
    /\ last.kind = "idle"
    /\ \E parameters \in ParameterSets(model), config \in Configs :
        \E eng \in IF "train" \in Steps(fit(Self, parameters, config, NoEngine(model)).trace)
                   THEN EngineChoices(model) ELSE {NoEngine(model)} :
            LET r == fit(Self, parameters, config, eng)
                h == HandedAfter(handed, r, device)
            IN  /\ r.optimizer <= MaxOptSteps
                /\ model' = r.model
                /\ optimizer' = r.optimizer
                /\ device' = r.device
                /\ refs' = r.refs
                /\ handed' = IF r.outcome = "ok" THEN Snapshot(r.model, r.device) ELSE h
                /\ last' = Call("fit", parameters, config, r, eng, h, FALSE)
    /\ UNCHANGED <<cid, num_examples, conf_fabric, ctor, session, boot>>

\* client.evaluate(parameters, config); it may directly follow an evaluate
\* of the same ParameterSet and config
Evaluate ==
    /\ last.kind = "idle" \/ (last.kind = "evaluate" /\ last.outcome = "ok")
    /\ \E parameters \in ParameterSets(model), config \in Configs :
        LET again == /\ last.kind = "evaluate" /\ last.outcome = "ok"
                     /\ last.parameters = parameters /\ last.config = config
        IN
        /\ last.kind = "idle" \/ again
        /\ \E eng \in IF "test" \in Steps(evaluate(Self, parameters, config, NoEngine(model)).trace)
                      THEN {e \in EngineChoices(model) :
                               e.data = get_parameters(model) /\ e.loss = 0 /\ e.accuracy = 0}
                      ELSE {NoEngine(model)} :
            LET r == evaluate(Self, parameters, config, eng)
                h == HandedAfter(handed, r, device)
            IN  /\ model' = r.model
                /\ optimizer' = r.optimizer
                /\ device' = r.device
                /\ refs' = r.refs
                /\ handed' = h
                /\ last' = Call("evaluate", parameters, config, r, eng, h,
                                again /\ r.outcome = "ok")
        /\ UNCHANGED <<cid, num_examples, conf_fabric, ctor, session, boot>>

\* the outcome has been passed on to the caller; the client awaits a call
Return ==
    /\ last.kind # "idle"
    /\ last' = Idle
    /\ UNCHANGED <<cid, num_examples, conf_fabric, model, optimizer, device, handed, ctor, session, boot, refs>>

Next == GetParameters \/ SetParameters \/ Fit \/ Evaluate \/ Return

Spec == Init /\ [][Next]_vars

TypeOK ==
    /\ cid \in Cids
    /\ num_examples \in SampleCounts
    /\ device \in Accelerators
    /\ optimizer \in 0..MaxOptSteps
    /\ last.outcome \in {"none", "ok", "error"}

\* ============================================================ properties
Rounds == {"set_parameters", "fit", "evaluate"}
Count(trace, step) == Cardinality({i \in 1..Len(trace) : trace[i] = step})

\* C1: a ParameterSet with one extra array, one missing array or one array
\* of another shape than its weight slot makes set_parameters, fit and
\* evaluate fail with an error.
C1_MalformedRejected ==
    (last.kind \in Rounds /\ last.parameters \notin Matching(last.before))
        => last.outcome = "error"

\* C2: whenever the decode of a call fails, every weight slot of the model
\* holds the value it held before the call.
C2_DecodeAtomic ==
    (last.kind \in Rounds /\ last.error = "RuntimeError") => model = last.before

\* C3: set_parameters(get_parameters(config)) succeeds and leaves every
\* weight slot as it was: same slots, same shapes, same values.
C3_RoundTrip ==
    (last.kind = "set_parameters" /\ last.parameters = get_parameters(last.before))
        => /\ last.outcome = "ok"
           /\ model = last.before

C3_Witness ==
    /\ last.kind = "set_parameters"
    /\ last.parameters = get_parameters(last.before)
    /\ last.outcome = "ok"
    /\ \E i \in 1..Len(model) : model[i][2].data[1] # 0

\* C4: no operation on the client changes the values of a ParameterSet it
\* returned earlier.
C4_SnapshotNotAliased ==
    last.held.has => last.held.after = last.held.before

\* C5: fit with a matching ParameterSet P and a config holding server_round
\* and local_epochs = e loads P, runs the training engine once with epochs = e
\* and, when the engine returns, returns the encoding of the trained weights
\* (one array per slot, in the layout's shapes), num_examples["trainset"] and
\* {accuracy, loss, cid} with the engine's loss and accuracy; e = 0 included.
C5_FitRound ==
    (/\ last.kind = "fit"
     /\ last.parameters \in Matching(last.before)
     /\ ConfigKeys \subseteq DOMAIN last.config)
        => /\ last.decoded = last.parameters
           /\ Count(last.trace, "train") = 1
           /\ Count(last.trace, "test") = 0
           /\ last.epochs = last.config["local_epochs"]
           /\ last.outcome = "error" => last.error = "EngineError"
           /\ last.outcome = "ok" =>
                /\ last.trace = <<"decode", "launch", "setup", "train", "encode">>
                /\ last.ret.kind = "fit"
                /\ last.ret.parameters = get_parameters(model)
                /\ ShapesOf(last.ret.parameters) = Layout(last.before)
                /\ last.ret.num = num_examples["trainset"]
                /\ last.ret.metrics = [accuracy |-> last.engine.accuracy,
                                       loss |-> last.engine.loss, cid |-> cid]
                /\ last.engine.loss \in Metrics
                /\ last.engine.accuracy \in Metrics

C5_Witness ==
    /\ last.kind = "fit"
    /\ last.outcome = "ok"
    /\ last.parameters \in Matching(last.before)
    /\ last.epochs = 0
    /\ last.ret.metrics.loss # last.ret.metrics.accuracy

\* C6: evaluate with a matching ParameterSet P and a config holding
\* server_round loads P, runs the evaluation pass once and never the training
\* pass and, when the pass returns, returns (loss, num_examples["valset"],
\* {accuracy, loss, cid}): the first element is the metrics' loss, both come
\* from the evaluation pass on P, and no ParameterSet is returned.
C6_EvaluateRound ==
    (/\ last.kind = "evaluate"
     /\ last.parameters \in Matching(last.before)
     /\ "server_round" \in DOMAIN last.config)
        => /\ last.decoded = last.parameters
           /\ get_parameters(model) = last.parameters
           /\ Count(last.trace, "test") = 1
           /\ Count(last.trace, "train") = 0
           /\ last.outcome = "error" => last.error = "EngineError"
           /\ last.outcome = "ok" =>
                /\ last.trace = <<"decode", "launch", "setup", "test">>
                /\ last.ret.kind = "evaluate"
                /\ last.ret.parameters = << >>
                /\ last.ret.loss = last.ret.metrics.loss
                /\ last.ret.loss = test_loop(model, NoEngine(model)).loss
                /\ last.ret.metrics.accuracy = test_loop(model, NoEngine(model)).accuracy
                /\ last.ret.num = num_examples["valset"]
                /\ last.ret.metrics.cid = cid

C6_Witness ==
    /\ last.kind = "evaluate"
    /\ last.outcome = "ok"
    /\ last.parameters \in Matching(last.before)
    /\ last.parameters # get_parameters(last.before)
    /\ last.ret.loss # last.ret.metrics.accuracy

\* C7: fit with a config that lacks local_epochs fails with an error,
\* returns nothing, and leaves the model's weights as they were before the
\* call (stated for a matching ParameterSet, where the missing key is the
\* call's only fault).
C7_MissingEpochsNoCommit ==
    (/\ last.kind = "fit"
     /\ "local_epochs" \notin DOMAIN last.config
     /\ last.parameters \in Matching(last.before))
        => /\ last.outcome = "error"
           /\ last.ret = NoRet
           /\ model = last.before

\* C8: evaluate leaves the optimizer's state as it was, and an evaluate that
\* directly follows an evaluate of the same ParameterSet returns the same
\* loss and accuracy.
C8_EvaluateRepeatable ==
    /\ last.kind = "evaluate" => optimizer = last.optBefore
    /\ last.twice =>
         /\ last.ret.loss = last.prevRet.loss
         /\ last.ret.metrics.loss = last.prevRet.metrics.loss
         /\ last.ret.metrics.accuracy = last.prevRet.metrics.accuracy

C8_Witness ==
    /\ last.kind = "evaluate"
    /\ last.twice
    /\ last.outcome = "ok"
    /\ optimizer > 0

\* C9: after evaluate(P, config) completes, the model's weights are P: a
\* following get_parameters returns P, whatever the weights were before.
C9_EvaluateLeavesP ==
    (last.kind = "evaluate" /\ last.outcome = "ok")
        => get_parameters(model) = last.parameters

\* C10: cid and num_examples keep the values given at construction; fit
\* reports num_examples["trainset"], evaluate num_examples["valset"], and
\* every metrics map carries the construction-time cid.
C10_IdentityAndCountsConstant ==
    /\ cid = ctor.cid
    /\ num_examples = ctor.num_examples
    /\ last.ret.kind = "fit" =>
         /\ last.ret.num = ctor.num_examples["trainset"]
         /\ last.ret.metrics.cid = ctor.cid
    /\ last.ret.kind = "evaluate" =>
         /\ last.ret.num = ctor.num_examples["valset"]
         /\ last.ret.metrics.cid = ctor.cid

C10_Witness ==
    /\ last.ret.kind = "fit"
    /\ last.optBefore > 0
    /\ device = "cuda"

\* C11: get_parameters can be called in every round state (before any
\* round, between rounds, after a failed round) with any config; it returns
\* the encoding of the model's current weights and leaves the weights, the
\* optimizer, cid and num_examples unchanged.
C11_GetParametersReadOnly ==
    last.kind = "get_parameters"
        => /\ last.outcome = "ok"
           /\ last.ret.kind = "ParameterSet"
           /\ last.ret.parameters = [i \in 1..Len(last.before) |-> last.before[i][2]]
           /\ model = last.before
           /\ optimizer = last.optBefore
           /\ cid = ctor.cid
           /\ num_examples = ctor.num_examples

C11_Witness ==
    /\ last.kind = "get_parameters"
    /\ last.after = "error"
    /\ last.before # NewModel(Layout(last.before))
    /\ last.outcome = "ok"
    /\ \E i \in 1..Len(model) : model[i][2].data[1] # 0

\* C12: fit or evaluate called with a ParameterSet that does not match the
\* model raises before anything else happens: the backend is not launched,
\* the engine is not invoked and nothing is returned; a round that succeeds
\* runs decode, backend launch and setup, engine call, result, in this order.
C12_DecodeFailureAborts ==
    last.kind \in {"fit", "evaluate"} =>
        /\ last.parameters \notin Matching(last.before) =>
             /\ last.outcome = "error"
             /\ last.trace = <<"decode">>
             /\ last.ret = NoRet
        /\ last.outcome = "ok" =>
             last.trace \in {<<"decode", "launch", "setup", "train", "encode">>,
                             <<"decode", "launch", "setup", "test">>}

\* the client with the weights and the optimizer it had when the recorded
\* call started, and what the engine did in that call
SelfBefore == [cid |-> cid, num_examples |-> num_examples, conf_fabric |-> conf_fabric,
               model |-> last.before, optimizer |-> last.optBefore,
               device |-> device, refs |-> refs]
EngineOf == [raises |-> last.error = "EngineError",
             data |-> get_parameters(model),
             loss |-> IF last.engine.loss = -1 THEN 0 ELSE last.engine.loss,
             accuracy |-> IF last.engine.accuracy = -1 THEN 0 ELSE last.engine.accuracy]

SameOutcome(r) ==
    /\ r.outcome = last.outcome
    /\ r.error = last.error
    /\ r.ret = last.ret
    /\ r.model = model
    /\ r.optimizer = optimizer
    /\ r.trace = last.trace

\* C13: a fit or evaluate call whose config holds unknown keys ends as the
\* call from the same client state with the same ParameterSet and the config
\* without those keys: same success or failure, same result, same model state.
C13_UnknownKeysIgnored ==
    /\ (last.kind = "fit" /\ "other" \in DOMAIN last.config) =>
         SameOutcome(fit(SelfBefore, last.parameters, Known(last.config), EngineOf))
    /\ (last.kind = "evaluate" /\ "other" \in DOMAIN last.config) =>
         SameOutcome(evaluate(SelfBefore, last.parameters, Known(last.config), EngineOf))

C13_Witness ==
    /\ last.kind = "fit"
    /\ "other" \in DOMAIN last.config
    /\ last.outcome = "ok"
    /\ last.epochs = 1
    /\ last.parameters \in Matching(last.before)

\* C14: every get_parameters call returns one array per weight slot, in the
\* slot order the model was built with, whatever happened before it; a fit
\* result too; set_parameters puts the i-th array into the i-th slot of that
\* order, and into no other.
C14_OrderStable ==
    /\ Layout(model) = ctor.layout
    /\ \A i \in 1..Len(model) : model[i][1] = KeyOf(i)
    /\ last.kind = "get_parameters" =>
          /\ ShapesOf(last.ret.parameters) = ctor.layout
          /\ \A i \in 1..Len(model) : last.ret.parameters[i].data = model[i][2].data
    /\ (last.kind = "fit" /\ last.outcome = "ok") =>
          /\ ShapesOf(last.ret.parameters) = ctor.layout
          /\ \A i \in 1..Len(model) : last.ret.parameters[i].data = model[i][2].data
    /\ last.kind = "set_parameters" =>
          /\ last.parameters \in Matching(last.before) =>
                /\ last.outcome = "ok"
                /\ \A i \in 1..Len(model) : model[i][2].data = last.parameters[i].data
          /\ \A i \in 1..Len(model) :
                \/ model[i][2] = last.before[i][2]
                \/ /\ i <= Len(last.parameters)
                   /\ model[i][2].data[1] = last.parameters[i].data[1]

C14_Witness ==
    /\ last.kind = "get_parameters"
    /\ last.held.has
    /\ last.held.before # last.ret.parameters
    /\ last.ret.parameters[1].data # last.ret.parameters[2].data

\* ------------------------------------------- the session, step by step
\* fl.client.start_numpy_client(server_address, client): one loop in the
\* calling thread takes a message from the server, calls the client's
\* handler, sends what it returned, and only then takes the next message.
\* The handlers are plain synchronous methods; here each runs line by line.
FullConfigs == {c \in KnownConfigs : DOMAIN c = ConfigKeys}
RoundOnly == {c \in KnownConfigs : DOMAIN c = {"server_round"}}
SessionMessages(m) ==
    [kind : {"fit"}, parameters : Matching(m), config : FullConfigs]
    \cup [kind : {"evaluate"}, parameters : Matching(m), config : RoundOnly]

SessionEngines(m, kind) ==
    {e \in EngineChoices(m) :
        /\ e.loss = 0 /\ e.accuracy = 0
        /\ kind = "evaluate" => e.data = get_parameters(m)}

\* a round as the loop starts it: its message, the client as it found it,
\* and the locals of the handler, not yet assigned
NewRound(msg) ==
    [msg |-> msg, pc |-> "decode",
     start |-> [model |-> model, optimizer |-> optimizer, device |-> device],
     eng |-> NoEngine(model), seen |-> << >>, trained |-> << >>,
     ret |-> NoRet, error |-> "none"]

Failed(r, error) == [r EXCEPT !.pc = "reply", !.error = error]

\* a loop that hands every message to a thread of its own
CanDispatch_threaded(active) == Len(active) < 2

\* the loop is back at its receive call: no handler is running
CanDispatch(active) == active = << >>

\* the server's next message reaches the transport
Deliver ==
    /\ Len(session.inbox) < MaxInbox
    /\ \E msg \in SessionMessages(model) :
          session' = [session EXCEPT !.inbox = Append(@, msg)]
    /\ UNCHANGED <<cid, num_examples, conf_fabric, model, optimizer, device,
                   handed, last, ctor, boot, refs>>

\* the loop takes the message and calls client.fit / client.evaluate
Dispatch ==
    /\ session.inbox # << >>
    /\ CanDispatch(session.active)
    /\ LET msg == Head(session.inbox)
       IN  /\ msg.kind = "fit" => optimizer + msg.config["local_epochs"] <= MaxOptSteps
           /\ session' = [inbox |-> Tail(session.inbox),
                          active |-> Append(session.active, NewRound(msg))]
    /\ UNCHANGED <<cid, num_examples, conf_fabric, model, optimizer, device,
                   handed, last, ctor, boot, refs>>

\* self.set_parameters(parameters); config['server_round']
Decode(i) ==
    LET r == session.active[i]
        sp == set_parameters(model, r.msg.parameters)
    IN  /\ r.pc = "decode"
        /\ model' = sp.model
        /\ session' = [session EXCEPT !.active[i] =
                IF sp.raised THEN Failed(r, "RuntimeError")
                ELSE IF Missing(r.msg.config, "server_round") THEN Failed(r, "KeyError")
                ELSE [r EXCEPT !.pc = "launch"]]
        /\ UNCHANGED <<cid, num_examples, conf_fabric, optimizer, device,
                       handed, last, ctor, boot, refs>>

\* self.fabric.launch(); fabric.setup / setup_module; setup_dataloaders
Launch(i) ==
    LET r == session.active[i]
    IN  /\ r.pc = "launch"
        /\ device' = conf_fabric
        /\ refs' = AfterSetup(Self)
        /\ session' = [session EXCEPT !.active[i] = [r EXCEPT !.pc = "engine"]]
        /\ UNCHANGED <<cid, num_examples, conf_fabric, model, optimizer,
                       handed, last, ctor, boot>>

\* train_loop(...) / test_loop(...) on the model as it is now
Engine(i) ==
    LET r == session.active[i]
    IN  /\ r.pc = "engine"
        /\ \E eng \in SessionEngines(model, r.msg.kind) :
            IF r.msg.kind = "fit"
            THEN LET tl == train_loop(model, optimizer, r.msg.config["local_epochs"], eng)
                 IN  /\ model' = tl.model
                     /\ optimizer' = tl.optimizer
                     /\ session' = [session EXCEPT !.active[i] =
                            [r EXCEPT !.eng = eng,
                                      !.seen = get_parameters(model),
                                      !.trained = get_parameters(tl.model),
                                      !.error = IF tl.raised THEN "EngineError" ELSE "none",
                                      !.pc = IF tl.raised THEN "reply" ELSE "encode"]]
            ELSE LET tl == test_loop(model, eng)
                 IN  /\ UNCHANGED <<model, optimizer>>
                     /\ session' = [session EXCEPT !.active[i] =
                            [r EXCEPT !.eng = eng,
                                      !.seen = get_parameters(model),
                                      !.trained = get_parameters(model),
                                      !.error = IF tl.raised THEN "EngineError" ELSE "none",
                                      !.ret = IF tl.raised THEN NoRet
                                              ELSE EvaluateReturn(Self, tl.loss, tl.accuracy),
                                      !.pc = "reply"]]
        /\ UNCHANGED <<cid, num_examples, conf_fabric, device, handed, last, ctor, boot, refs>>

\* metrics = {...}; return self.get_parameters(config={}), ..., metrics
Encode(i) ==
    LET r == session.active[i]
    IN  /\ r.pc = "encode"
        /\ session' = [session EXCEPT !.active[i] =
                [r EXCEPT !.ret = FitReturn(Self, model, r.eng.loss, r.eng.accuracy),
                          !.pc = "reply"]]
        /\ UNCHANGED <<cid, num_examples, conf_fabric, model, optimizer, device,
                       handed, last, ctor, boot, refs>>

\* the handler has returned or raised; the loop sends the outcome
Reply(i) ==
    LET r == session.active[i]
    IN  /\ r.pc = "reply"
        /\ session' = [session EXCEPT !.active =
                [j \in 1..(Len(@) - 1) |-> IF j < i THEN @[j] ELSE @[j + 1]]]
        /\ UNCHANGED <<cid, num_examples, conf_fabric, model, optimizer, device,
                       handed, last, ctor, boot, refs>>

DecodeStep == \E i \in 1..Len(session.active) : Decode(i)
LaunchStep == \E i \in 1..Len(session.active) : Launch(i)
EngineStep == \E i \in 1..Len(session.active) : Engine(i)
EncodeStep == \E i \in 1..Len(session.active) : Encode(i)
ReplyStep == \E i \in 1..Len(session.active) : Reply(i)

NextSession ==
    Deliver \/ Dispatch \/ DecodeStep \/ LaunchStep \/ EngineStep \/ EncodeStep \/ ReplyStep

SpecSession == Init /\ [][NextSession]_vars

\* the client as the round found it
StartSelf(r) == [cid |-> cid, num_examples |-> num_examples, conf_fabric |-> conf_fabric,
                 model |-> r.start.model, optimizer |-> r.start.optimizer,
                 device |-> r.start.device, refs |-> refs]

\* the handler called in one piece from the state the round started in
Atomic(r) ==
    IF r.msg.kind = "fit"
    THEN fit(StartSelf(r), r.msg.parameters, r.msg.config, r.eng)
    ELSE evaluate(StartSelf(r), r.msg.parameters, r.msg.config, r.eng)

\* C15: at most one round is between its decode and its reply; from its
\* decode to its engine call the model holds the weights the round decoded,
\* the engine sees exactly those, the final encode returns what this round's
\* training left, and the round ends as the handler run alone would.
C15_RoundsSequential ==
    /\ Len(session.active) <= 1
    /\ \A i \in 1..Len(session.active) :
        LET r == session.active[i]
        IN  /\ r.pc \in {"launch", "engine"} => get_parameters(model) = r.msg.parameters
            /\ r.pc = "encode" =>
                  /\ r.seen = r.msg.parameters
                  /\ get_parameters(model) = r.trained
            /\ r.pc = "reply" =>
                  /\ r.seen = r.msg.parameters
                  /\ r.ret = Atomic(r).ret
                  /\ r.error = Atomic(r).error
                  /\ model = Atomic(r).model
                  /\ optimizer = Atomic(r).optimizer
                  /\ device = Atomic(r).device
                  /\ (r.msg.kind = "fit" /\ r.error = "none") => r.ret.parameters = r.trained

C15_Witness ==
    /\ session.inbox # << >>
    /\ \E i \in 1..Len(session.active) :
        LET r == session.active[i]
        IN  /\ r.pc = "reply" /\ r.msg.kind = "fit" /\ r.error = "none"
            /\ r.start.model # NewModel(Layout(r.start.model))
            /\ r.trained # r.msg.parameters
            /\ Head(session.inbox).parameters # r.msg.parameters

\* C16: configure_optimizers has been called once; after every fit or
\* evaluate call, returned or raised, the attributes of the client refer to
\* the objects they referred to after construction, none of them to a
\* handle Fabric made during the round.
C16_ConstructedOnce ==
    /\ refs.configured = 1
    /\ last.kind \in {"fit", "evaluate"} =>
          /\ refs = ctor.refs
          /\ \A a \in {"model", "optimizer", "train_dataloader", "validation_dataloader"} :
                Head(refs[a]) # "fabric"

C16_Witness ==
    /\ last.kind = "fit"
    /\ last.error = "EngineError"
    /\ last.before # NewModel(Layout(last.before))
    /\ last.optBefore > 0
    /\ refs.model = <<"net">>

\* the rounds that may follow: a matching ParameterSet, a full config and an
\* engine that does not fail
NextRoundOk(kind) ==
    \A p \in Matching(model), c \in FullConfigs :
        LET eng == [NoEngine(model) EXCEPT !.data = p]
            r == IF kind = "fit" THEN fit(Self, p, c, eng) ELSE evaluate(Self, p, c, eng)
        IN  /\ r.outcome = "ok"
            /\ get_parameters(r.decoded) = p
            /\ r.ret.kind = kind

\* C17: when the engine raises in fit or evaluate, the call ends with the
\* engine's error, the engine has been invoked once and nothing ran after
\* it, no result is returned, and a next fit or evaluate with a matching
\* ParameterSet loads all of it and returns its result.
C17_EngineErrorPropagated ==
    (last.kind \in {"fit", "evaluate"} /\ last.error = "EngineError") =>
        /\ last.outcome = "error"
        /\ last.ret = NoRet
        /\ Count(last.trace, "train") + Count(last.trace, "test") = 1
        /\ last.trace[Len(last.trace)] \in {"train", "test"}
        /\ NextRoundOk("fit")
        /\ NextRoundOk("evaluate")

C17_Witness ==
    /\ last.kind = "fit"
    /\ last.error = "EngineError"
    /\ last.epochs = 1
    /\ get_parameters(model) # last.parameters
    /\ last.parameters \in Matching(last.before)

\* C18: fit and evaluate called with a config without server_round end with
\* an error and return nothing; Fabric is not launched and the engine is
\* not invoked; with a matching ParameterSet the error is the KeyError.
C18_ServerRoundRequired ==
    (last.kind \in {"fit", "evaluate"} /\ "server_round" \notin DOMAIN last.config) =>
        /\ last.outcome = "error"
        /\ last.error \in {"KeyError", "RuntimeError"}
        /\ last.parameters \in Matching(last.before) => last.error = "KeyError"
        /\ last.ret = NoRet
        /\ Steps(last.trace) \cap {"launch", "setup", "train", "test", "encode"} = {}
        /\ optimizer = last.optBefore

C18_Witness ==
    /\ last.kind = "evaluate"
    /\ DOMAIN last.config = {"local_epochs"}
    /\ last.error = "KeyError"
    /\ last.parameters \in Matching(last.before)
    /\ device = "cuda"

\* --------------------------------------------------------- the bootstrap
\* launch_config(config, cid, device_num, root_dir, server_adress), the typer
\* command. config is a required argument, so it is never None here.
\* What the path names: a regular file, a directory, nothing, or something
\* else that exists (a device, a FIFO, a socket)
PathKinds == {"file", "dir", "missing", "other"}

\* an option left out on the command line is None; a given one carries its
\* value, and 0 stands for the values Python counts as false (0, "")
None == << >>
Given(v) == <<v>>
Options == {None} \cup {Given(v) : v \in {0, 1}}
Overrides == {"cid", "device_num", "root_dir", "server_adress"}

\* what OmegaConf.load(config) returns for the files looked at
Files == {[cid |-> 2, device_num |-> 2, root_dir |-> 2, server_adress |-> 2,
           model |-> l, fabric |-> a] : l \in Layouts, a \in Accelerators}

Unbound == [bound |-> FALSE]
Nothing == [data |-> 0, models |-> 0, clients |-> 0, sessions |-> 0]

\* raise typer.Abort(), or an exception raised before anything is created
Stop(outcome) ==
    [outcome |-> outcome, conf |-> Unbound, created |-> Nothing,
     client_cid |-> -1, server_address |-> -1]

\* if cid is not None: conf["cid"] = cid ... (lines 122-129)
Overlay(conf, cli) ==
    [k \in DOMAIN conf |->
        IF k \in Overrides /\ cli[k] # None THEN cli[k][1] ELSE conf[k]]

launch_config(path, file, cli) ==
    IF path = "file"
    THEN LET conf == Overlay(file, cli)
         IN  [outcome |-> "serving", conf |-> conf,
              created |-> [data |-> 1, models |-> 1, clients |-> 1, sessions |-> 1],
              client_cid |-> conf["cid"], server_address |-> conf["server_adress"]]
    ELSE IF path = "dir" THEN Stop("Abort")
    ELSE IF path = "missing" THEN Stop("Abort")
    \* none of the three branches ran: conf was never assigned, and its first
    \* use, at line 123 or at line 131, raises
    ELSE Stop("UnboundLocalError")

InitBoot ==
    /\ boot \in [pc : {"start"}, path : PathKinds, file : Files,
                 cli : [Overrides -> Options],
                 outcome : {"none"}, conf : {Unbound}, created : {Nothing},
                 server_address : {-1}]
    /\ cid = -1
    /\ num_examples = [trainset |-> 0, valset |-> 0]
    /\ conf_fabric = "none"
    /\ model = << >>
    /\ optimizer = -1
    /\ device = "none"
    /\ handed = NoHanded
    /\ last = Idle
    /\ ctor = [cid |-> -1]
    /\ session = NoSession
    /\ refs = [configured |-> 0]

\* one run of the command
LaunchConfig ==
    /\ boot.pc = "start"
    /\ LET r == launch_config(boot.path, boot.file, boot.cli)
       IN  /\ boot' = [boot EXCEPT !.pc = "done", !.outcome = r.outcome, !.conf = r.conf,
                                   !.created = r.created,
                                   !.server_address = r.server_address]
           /\ IF r.outcome = "serving"
              THEN /\ cid' = r.client_cid
                   /\ num_examples' \in SampleCounts
                   /\ conf_fabric' = r.conf["fabric"]
                   /\ model' = NewModel(r.conf["model"])
                   /\ optimizer' = 0
                   /\ device' = "cpu"
                   /\ refs' = NewRefs
                   /\ ctor' = [cid |-> cid', num_examples |-> num_examples',
                               layout |-> Layout(model'), refs |-> NewRefs]
              ELSE UNCHANGED <<cid, num_examples, conf_fabric, model, optimizer, device,
                               refs, ctor>>
    /\ UNCHANGED <<handed, last, session>>

NextBoot == LaunchConfig

SpecBoot == InitBoot /\ [][NextBoot]_vars

\* C19: launch_config on a directory or a path that does not exist aborts
\* and creates nothing; on every other path it loads the configuration, lets
\* each given option (0 too) replace the loaded value and keeps the loaded
\* value of each omitted one, and constructs one client and starts one
\* session with the resulting cid and server address.
C19_Bootstrap ==
    boot.pc = "done" =>
        /\ boot.path \in {"dir", "missing"} =>
              /\ boot.outcome = "Abort"
              /\ boot.created = Nothing
        /\ boot.path \notin {"dir", "missing"} =>
              /\ boot.outcome = "serving"
              /\ \A k \in Overrides :
                    boot.conf[k] = IF boot.cli[k] # None THEN boot.cli[k][1]
                                   ELSE boot.file[k]
              /\ boot.created = [data |-> 1, models |-> 1, clients |-> 1, sessions |-> 1]
              /\ cid = boot.conf["cid"]
              /\ boot.server_address = boot.conf["server_adress"]

====
